---- MODULE Spec2Model ----
(***************************************************************************)
(* A model of the deepface pipeline: the face extraction and normalisation *)
(* of commons/functions.py, and the model registry, verify and find of     *)
(* DeepFace.py.                                                            *)
(***************************************************************************)
EXTENDS Integers, Sequences, FiniteSets, TLC

(***************************************************************************)
(* Bounds of the model.                                                    *)
(***************************************************************************)
\* largest side of a synthetic face crop handed to extract_faces
MaxCrop == 3
\* most detections of one synthetic image handed to extract_faces
MaxFaces == 2

\* Python's None where a string is expected
None == "None"
\* no target size: find_target_size raised
NoSize == << >>
\* no image: load_image raised, or cv2.imread returned None
NoImage == [h |-> 0, w |-> 0, id |-> 0, dets |-> << >>]
\* no tensor: the resize raised
NoTensor == [h |-> 0, w |-> 0, sh |-> 0, sw |-> 0, top |-> 0, bottom |-> 0,
             left |-> 0, right |-> 0, refit |-> FALSE, fid |-> 0,
             aligned |-> FALSE, scale |-> "none"]

(***************************************************************************)
(* Python helpers.                                                         *)
(***************************************************************************)
Min2(a, b) == IF a <= b THEN a ELSE b

RECURSIVE SeqMin(_)
\* min(distances) of a non-empty list
SeqMin(s) == IF Len(s) = 1 THEN s[1] ELSE Min2(s[1], SeqMin(Tail(s)))

\* np.argmin(distances): the first index of the minimum (1-based here)
ArgMin(s) == CHOOSE i \in 1..Len(s) :
                /\ s[i] = SeqMin(s)
                /\ \A j \in 1..(i - 1) : s[j] # s[i]

(***************************************************************************)
(* functions.find_target_size                                              *)
(***************************************************************************)
\* the table of functions.find_target_size; None stands for the ValueError
\* "unimplemented model name"
find_target_size(model_name) ==
    CASE model_name = "VGG-Face"   -> <<224, 224>>
      [] model_name = "Facenet"    -> <<160, 160>>
      [] model_name = "Facenet512" -> <<160, 160>>
      [] model_name = "OpenFace"   -> <<96, 96>>
      [] model_name = "DeepFace"   -> <<152, 152>>
      [] model_name = "DeepID"     -> <<55, 47>>
      [] model_name = "Dlib"       -> <<150, 150>>
      [] model_name = "ArcFace"    -> <<112, 112>>
      [] model_name = "SFace"      -> <<112, 112>>
      [] OTHER                     -> NoSize

(***************************************************************************)
(* functions.extract_faces: resize with padding.                           *)
(*                                                                         *)
(* A target size is [dims |-> <<t0, t1>>, kind |-> "tuple" or "list"]:     *)
(* the Python value the caller passes.  A crop is [h, w, fid]: its shape   *)
(* and the identity of its pixels.                                         *)
(***************************************************************************)
\* The triples <<dim, num, den>> for which the double product
\* dim * (num / den) lies just below its exact integer value, so that
\* int() truncates to one less (IEEE-754 round-to-nearest, as CPython
\* computes it), among the crops and target sizes of this model.
FloatLow == { <<55, 224, 55>>, <<300, 55, 300>> }

\* int(dim * factor) with factor = num / den, lines 131-135
FloatTrunc(dim, num, den) ==
    IF <<dim, num, den>> \in FloatLow
    THEN (dim * num) \div den - 1
    ELSE (dim * num) \div den

\* factor = min(factor_0, factor_1) as the pair <<num, den>>, lines 131-133
Factor(h, w, t) ==
    IF t[1] * w <= t[2] * h THEN <<t[1], h>> ELSE <<t[2], w>>

\* the shape of the crop after cv2.resize(current_img, dsize), lines 135-136
ScaledShape(h, w, t) ==
    LET f == Factor(h, w, t)
    IN  <<FloatTrunc(h, f[1], f[2]), FloatTrunc(w, f[1], f[2])>>

(***************************************************************************)
(* Error outcomes: the exception a call ends with, "ok" when it returns.   *)
(***************************************************************************)
ErrNotFound  == "ValueError: Confirm that img exists"
ErrNoFace    == "ValueError: Face could not be detected"
ErrFaceShape == "ValueError: Detected face shape"
ErrPad       == "ValueError: index can't contain negative values"
ErrCv2       == "cv2.error"
ErrAttr      == "AttributeError: NoneType has no attribute shape"

\* the ValueErrors extract_faces raises when no face is usable
NoFaceErrors == {ErrNoFace, ErrFaceShape}

(***************************************************************************)
(* functions.load_image.  An image source is [kind, img]: an in-memory     *)
(* array, the path of a readable image file, a path that does not exist,   *)
(* or the path of a file cv2.imread cannot decode (it returns None).  A    *)
(* Python list is neither an array nor a str: line 64 calls startswith on  *)
(* it.                                                                     *)
(***************************************************************************)
ErrListAttr == "AttributeError: 'list' object has no attribute 'startswith'"

load_image(src) ==
    CASE src.kind = "array"      -> [err |-> "ok", decoded |-> TRUE, img |-> src.img]
      [] src.kind = "path"       -> [err |-> "ok", decoded |-> TRUE, img |-> src.img]
      [] src.kind = "missing"    -> [err |-> ErrNotFound, decoded |-> FALSE, img |-> NoImage]
      [] src.kind = "unreadable" -> [err |-> "ok", decoded |-> FALSE, img |-> NoImage]
      [] src.kind = "list"       -> [err |-> ErrListAttr, decoded |-> FALSE, img |-> NoImage]

\* (img, img_region, 0): the whole image as one face, lines 105-108 and 121
WholeFace(img) ==
    [h |-> img.h, w |-> img.w, fid |-> img.id, aligned |-> FALSE,
     region |-> <<0, 0, img.w, img.h>>, conf |-> 0]

\* FaceDetector.detect_faces: the detections of the image, each crop
\* eye-aligned when align is set
DetectFaces(backend, img, align) ==
    [i \in 1..Len(img.dets) |->
        [h |-> img.dets[i].h, w |-> img.dets[i].w, fid |-> img.dets[i].fid,
         aligned |-> align, region |-> img.dets[i].region,
         conf |-> img.dets[i].conf]]

\* current_img.shape[0:2] != target_size, line 159: a tuple never equals a
\* list, whatever they hold
ShapeDiffers(shape, target) ==
    target.kind = "list" \/ shape # target.dims

\* lines 138-165 for a crop scaled to shape s: the padding and the
\* re-resize; the tensor, or the exception
PadScaled(face, target, s) ==
    LET t   == target.dims
        d0  == t[1] - s[1]
        d1  == t[2] - s[2]
        top == d0 \div 2
        bot == d0 - d0 \div 2
        lft == d1 \div 2
        rgt == d1 - d1 \div 2
        padded == <<top + s[1] + bot, lft + s[2] + rgt>>
        refit  == ShapeDiffers(padded, target)
        \* cv2.resize(current_img, target_size): dsize is (width, height)
        final  == IF refit THEN <<t[2], t[1]>> ELSE padded
    IN  IF s[1] <= 0 \/ s[2] <= 0
        THEN [err |-> ErrCv2, tensor |-> NoTensor]
        ELSE IF d0 < 0 \/ d1 < 0
        THEN [err |-> ErrPad, tensor |-> NoTensor]
        ELSE IF refit /\ (t[1] <= 0 \/ t[2] <= 0)
        THEN [err |-> ErrCv2, tensor |-> NoTensor]
        ELSE [err |-> "ok",
              tensor |-> [h |-> final[1], w |-> final[2],
                          sh |-> s[1], sw |-> s[2],
                          top |-> top, bottom |-> bot,
                          left |-> lft, right |-> rgt,
                          refit |-> refit, fid |-> face.fid,
                          aligned |-> face.aligned, scale |-> "unit"]]

\* lines 129-165 for one non-degenerate crop: the tensor, or the exception
ResizePad(face, target) ==
    PadScaled(face, target, ScaledShape(face.h, face.w, target.dims))

RECURSIVE ExtractLoop(_, _, _)
RECURSIVE ExtractKeep(_, _, _, _)
\* lines 166-176 for the crop at the head of face_objs, r its tensor or
\* exception, and the loop over the rest
ExtractKeep(face_objs, target, acc, r) ==
    IF r.err # "ok" THEN [err |-> r.err, faces |-> << >>]
    ELSE ExtractLoop(Tail(face_objs), target,
             Append(acc, [tensor |-> r.tensor,
                          region |-> Head(face_objs).region,
                          conf |-> Head(face_objs).conf]))

\* the loop of lines 123-176 over face_objs, from the faces extracted so far
ExtractLoop(face_objs, target, acc) ==
    IF face_objs = << >> THEN [err |-> "ok", faces |-> acc]
    ELSE IF Head(face_objs).h > 0 /\ Head(face_objs).w > 0
    THEN ExtractKeep(face_objs, target, acc,
                     ResizePad(Head(face_objs), target))
    ELSE ExtractLoop(Tail(face_objs), target, acc)

\* lines 178-181: no face had a valid shape
CheckExtracted(r, enforce_detection) ==
    IF r.err # "ok" THEN r
    ELSE IF Len(r.faces) = 0 /\ enforce_detection
    THEN [err |-> ErrFaceShape, faces |-> << >>]
    ELSE r

\* extract_faces without the check of lines 178-181
ExtractFaces_NoFinalCheck(src, target, detector_backend, enforce_detection, align) ==
    LET ld == load_image(src)
    IN  IF ld.err # "ok" THEN [err |-> ld.err, faces |-> << >>]
        ELSE IF ~ld.decoded THEN [err |-> ErrAttr, faces |-> << >>]
        ELSE
        LET img  == ld.img
            objs == IF detector_backend = "skip" THEN <<WholeFace(img)>>
                    ELSE DetectFaces(detector_backend, img, align)
        IN  IF Len(objs) = 0 /\ enforce_detection
            THEN [err |-> ErrNoFace, faces |-> << >>]
            ELSE LET face_objs == IF Len(objs) = 0 THEN <<WholeFace(img)>>
                                  ELSE objs
                 IN  ExtractLoop(face_objs, target, << >>)

\* functions.extract_faces (grayscale = False, as every caller passes it)
ExtractFaces(src, target, detector_backend, enforce_detection, align) ==
    LET ld == load_image(src)
    IN  IF ld.err # "ok" THEN [err |-> ld.err, faces |-> << >>]
        ELSE IF ~ld.decoded THEN [err |-> ErrAttr, faces |-> << >>]
        ELSE
        LET img  == ld.img
            objs == IF detector_backend = "skip" THEN <<WholeFace(img)>>
                    ELSE DetectFaces(detector_backend, img, align)
        IN  IF Len(objs) = 0 /\ enforce_detection
            THEN [err |-> ErrNoFace, faces |-> << >>]
            ELSE LET face_objs == IF Len(objs) = 0 THEN <<WholeFace(img)>>
                                  ELSE objs
                 IN  CheckExtracted(ExtractLoop(face_objs, target, << >>),
                                    enforce_detection)

(***************************************************************************)
(* State.                                                                  *)
(***************************************************************************)
VARIABLES
    ex,         \* the last call of extract_faces: << >> or <<[args, out]>>
    model_obj_defined,  \* "model_obj" in globals()
    model_obj,  \* the global dict: model name -> predictor, 0 when absent
    loads,      \* how often each name's loader has constructed a predictor
    returned,   \* the predictors build_model has returned, per name
    pc,         \* where each caller of build_model stands
    req,        \* the model_name of each caller
    local,      \* the local variable model of each caller
    raised,     \* the exception each caller's last call ended with
    vf,         \* the last call of verify: << >> or <<[args, out]>>
    db,         \* the gallery directory: file name -> what the file holds
    cache,      \* the cache files of the gallery directory
    fd,         \* the last call of find: << >> or <<[args, ..., out, resp]>>
    edits,      \* how often the gallery directory has been changed
    bm,         \* the last call of build_model by a sole caller
    rp,         \* the last call of represent: << >> or <<[args, out]>>
    az          \* the last call of analyze: << >> or <<[args, out]>>

exVars  == <<ex>>
regVars == <<model_obj_defined, model_obj, loads, returned, pc, req, local,
             raised>>
vfVars  == <<vf>>
fdVars  == <<db, cache, fd, edits>>
apVars  == <<bm, rp, az>>
vars == <<ex, model_obj_defined, model_obj, loads, returned, pc, req, local,
          raised, vf, db, cache, fd, edits, bm, rp, az>>

(***************************************************************************)
(* Calls of extract_faces on synthetic images.                             *)
(***************************************************************************)
CropSides == 0..MaxCrop

\* a detection with a crop of the given shape
Detection(h, w, fid) ==
    [h |-> h, w |-> w, fid |-> fid, region |-> <<0, 0, w, h>>, conf |-> 90]

RECURSIVE DetectionLists(_)
\* the detection lists of length n
DetectionLists(n) ==
    IF n = 0 THEN { << >> }
    ELSE { Append(l, Detection(h, w, n)) :
             l \in DetectionLists(n - 1), h \in CropSides, w \in CropSides }

\* the shapes (height, width) of the synthetic images
ExImageDims == { <<3, 2>>, <<3, 1>> }

ExImages ==
    { [h |-> d[1], w |-> d[2], id |-> 9, dets |-> l] :
        d \in ExImageDims,
        l \in UNION { DetectionLists(n) : n \in 0..MaxFaces } }

ExSources ==
    { [kind |-> "array", img |-> i] : i \in ExImages }
    \cup { [kind |-> "missing", img |-> NoImage],
           [kind |-> "unreadable", img |-> NoImage] }

\* target sizes a caller of extract_faces passes, as a tuple or as a list
ExTargetSizes ==
    { [dims |-> d, kind |-> k] :
        d \in { <<2, 2>>, <<3, 2>>, <<2, 3>> }, k \in {"tuple", "list"} }

ExBackends == {"opencv", "skip"}

InitEx == ex = << >>

\* one call of functions.extract_faces, on inputs drawn from the sets above
ExtractCall ==
    /\ ex = << >>
    /\ \E src \in ExSources, target \in ExTargetSizes, backend \in ExBackends,
       enforce \in BOOLEAN, align \in BOOLEAN :
        ex' = << [src |-> src, target |-> target, backend |-> backend,
                  enforce |-> enforce, align |-> align,
                  out |-> ExtractFaces(src, target, backend, enforce, align)] >>
    /\ UNCHANGED <<regVars, vfVars, fdVars>>

(***************************************************************************)
(* DeepFace.build_model: the process-wide registry of predictors.          *)
(* A predictor is the number of its construction: every call of a loader   *)
(* constructs a new object.  Loaders are taken to succeed.                 *)
(***************************************************************************)
\* callers of build_model that may run at once
NumThreads == 2

Threads == 1..NumThreads

\* the keys of the dict models, lines 41-55
LoaderNames == {"VGG-Face", "OpenFace", "Facenet", "Facenet512", "DeepFace",
                "DeepID", "Dlib", "ArcFace", "SFace", "Emotion", "Age",
                "Gender", "Race"}

\* the model names the registry is followed for
RegNames == {"VGG-Face", "DeepID", "Emotion", "Age", "Gender", "Race", "Bogus"}

\* the model names the concurrent callers of build_model request
CallNames == {"VGG-Face", "DeepID", "Bogus"}

ErrInvalidModel == "ValueError: Invalid model_name passed"
ErrKey          == "KeyError"

SumLoads == LET RECURSIVE Sum(_)
                Sum(S) == IF S = {} THEN 0
                          ELSE LET n == CHOOSE n \in S : TRUE
                               IN  loads[n] + Sum(S \ {n})
            IN  Sum(DOMAIN loads)

\* model(): the object a loader constructs now
NewPredictor == SumLoads + 1

\* the test of line 60 always failing: no request finds its name stored
InRegistry_Never(name) == FALSE

\* model_name in model_obj.keys(), line 60
InRegistry(name) == model_obj[name] # 0

InitReg ==
    /\ model_obj_defined = FALSE
    /\ model_obj = [n \in RegNames |-> 0]
    /\ loads = [n \in RegNames |-> 0]
    /\ returned = [n \in RegNames |-> {}]
    /\ pc = [t \in Threads |-> "idle"]
    /\ req = [t \in Threads |-> None]
    /\ local = [t \in Threads |-> 0]
    /\ raised = [t \in Threads |-> "ok"]

\* a caller enters build_model(model_name)
Call(t) ==
    /\ pc[t] = "idle"
    /\ \E n \in CallNames : req' = [req EXCEPT ![t] = n]
    /\ pc' = [pc EXCEPT ![t] = "globals"]
    /\ raised' = [raised EXCEPT ![t] = "ok"]
    /\ local' = [local EXCEPT ![t] = 0]
    /\ UNCHANGED <<model_obj_defined, model_obj, loads, returned>>

\* line 57: if not "model_obj" in globals()
CheckGlobals(t) ==
    /\ pc[t] = "globals"
    /\ pc' = [pc EXCEPT ![t] =
                IF model_obj_defined THEN "keys" ELSE "newdict"]
    /\ UNCHANGED <<model_obj_defined, model_obj, loads, returned, req, local,
                   raised>>

\* line 58: model_obj = {}
NewDict(t) ==
    /\ pc[t] = "newdict"
    /\ model_obj_defined' = TRUE
    /\ model_obj' = [n \in RegNames |-> 0]
    /\ pc' = [pc EXCEPT ![t] = "keys"]
    /\ UNCHANGED <<loads, returned, req, local, raised>>

\* lines 60-62 and 67: the name is stored, or has a loader, or is invalid
CheckKeys(t) ==
    /\ pc[t] = "keys"
    /\ IF InRegistry(req[t])
       THEN /\ pc' = [pc EXCEPT ![t] = "return"]
            /\ UNCHANGED raised
       ELSE IF req[t] \in LoaderNames
       THEN /\ pc' = [pc EXCEPT ![t] = "load"]
            /\ UNCHANGED raised
       ELSE /\ pc' = [pc EXCEPT ![t] = "idle"]
            /\ raised' = [raised EXCEPT ![t] = ErrInvalidModel]
    /\ UNCHANGED <<model_obj_defined, model_obj, loads, returned, req, local>>

\* line 63: model = model()
Load(t) ==
    /\ pc[t] = "load"
    /\ local' = [local EXCEPT ![t] = NewPredictor]
    /\ loads' = [loads EXCEPT ![req[t]] = @ + 1]
    /\ pc' = [pc EXCEPT ![t] = "store"]
    /\ UNCHANGED <<model_obj_defined, model_obj, returned, req, raised>>

\* line 64: model_obj[model_name] = model
Store(t) ==
    /\ pc[t] = "store"
    /\ model_obj' = [model_obj EXCEPT ![req[t]] = local[t]]
    /\ pc' = [pc EXCEPT ![t] = "return"]
    /\ UNCHANGED <<model_obj_defined, loads, returned, req, local, raised>>

\* line 69: return model_obj[model_name]
Return(t) ==
    /\ pc[t] = "return"
    /\ IF model_obj[req[t]] # 0
       THEN /\ returned' = [returned EXCEPT ![req[t]] =
                               @ \cup {model_obj[req[t]]}]
            /\ UNCHANGED raised
       ELSE /\ raised' = [raised EXCEPT ![t] = ErrKey]
            /\ UNCHANGED returned
    /\ pc' = [pc EXCEPT ![t] = "idle"]
    /\ UNCHANGED <<model_obj_defined, model_obj, loads, req, local>>

\* one step of caller t inside build_model
Step(t) ==
    \/ CheckGlobals(t)
    \/ NewDict(t)
    \/ CheckKeys(t)
    \/ Load(t)
    \/ Store(t)
    \/ Return(t)

(***************************************************************************)
(* build_model as one step of a single caller, on the registry             *)
(* [defined, obj, loads]: the global dict and the loaders' call counts.    *)
(***************************************************************************)
RECURSIVE SumOf(_, _)
SumOf(f, S) == IF S = {} THEN 0
               ELSE LET n == CHOOSE n \in S : TRUE
                    IN  f[n] + SumOf(f, S \ {n})

\* build_model without the else of lines 66-67: every name has a loader
build_model_AnyName(reg, model_name) ==
    [err |-> "ok", model |-> SumOf(reg.loads, DOMAIN reg.loads) + 1,
     reg |-> [defined |-> TRUE,
              obj |-> [reg.obj EXCEPT ![model_name] =
                          SumOf(reg.loads, DOMAIN reg.loads) + 1],
              loads |-> [reg.loads EXCEPT ![model_name] = @ + 1]]]

\* lines 57-69: [err, model, reg], reg the registry after the call
build_model(reg, model_name) ==
    LET d == IF reg.defined THEN reg.obj ELSE [n \in DOMAIN reg.obj |-> 0]
    IN  IF d[model_name] # 0
        THEN [err |-> "ok", model |-> d[model_name],
              reg |-> [defined |-> TRUE, obj |-> d, loads |-> reg.loads]]
        ELSE IF model_name \in LoaderNames
        THEN LET new == SumOf(reg.loads, DOMAIN reg.loads) + 1
             IN  [err |-> "ok", model |-> new,
                  reg |-> [defined |-> TRUE,
                           obj |-> [d EXCEPT ![model_name] = new],
                           loads |-> [reg.loads EXCEPT ![model_name] = @ + 1]]]
        ELSE [err |-> ErrInvalidModel, model |-> 0,
              reg |-> [defined |-> TRUE, obj |-> d, loads |-> reg.loads]]

(***************************************************************************)
(* functions.normalize_input on a tensor.  The field scale names the       *)
(* arithmetic state of the pixels: "unit" is [0, 1].  The result is the    *)
(* returned array (out) and the caller's array after the call (buf): most  *)
(* schemes work in place.                                                  *)
(***************************************************************************)
ErrNormalization == "ValueError: unimplemented normalization type"

normalize_input(img, normalization) ==
    LET raw == [img EXCEPT !.scale = "raw"]
    IN  CASE normalization = "base" ->
               [err |-> "ok", out |-> img, buf |-> img]
          [] normalization = "raw" ->
               [err |-> "ok", out |-> raw, buf |-> raw]
          [] normalization = "Facenet" ->
               [err |-> "ok", out |-> [img EXCEPT !.scale = "Facenet"],
                buf |-> raw]
          [] normalization \in {"Facenet2018", "VGGFace", "VGGFace2", "ArcFace"} ->
               [err |-> "ok", out |-> [img EXCEPT !.scale = normalization],
                buf |-> [img EXCEPT !.scale = normalization]]
          [] OTHER ->
               [err |-> ErrNormalization, out |-> raw, buf |-> raw]

(***************************************************************************)
(* The predictors and the distance module (deepface.basemodels and         *)
(* deepface.commons.distance), by their contracts: a predictor is a pure   *)
(* function of its input tensor with a fixed input shape; distances are    *)
(* fixed-point numbers, Scale to the unit.                                 *)
(***************************************************************************)
Scale == 100

\* the embedding of the pixels of a face, before what the model, the
\* alignment and the normalisation add
FaceVec(fid) ==
    CASE fid = 1 -> <<4, 1>>
      [] fid = 2 -> <<4, 2>>
      [] fid = 3 -> <<1, 4>>
      [] fid = 4 -> <<5, 2>>
      [] fid = 5 -> <<1, 4>>
      [] OTHER   -> <<2, 3>>

ScaleShift(scale) ==
    CASE scale = "unit" -> 0
      [] scale = "raw"  -> 1
      [] OTHER          -> 2

ErrShape == "ValueError: input incompatible with the layer"

NoEmbedding == << >>

\* model.predict(img)[0].tolist()
Predict(model_name, x) ==
    IF <<x.h, x.w>> # find_target_size(model_name)
    THEN [err |-> ErrShape, embedding |-> NoEmbedding]
    ELSE LET v == FaceVec(x.fid)
             a == v[1] + ScaleShift(x.scale)
             b == v[2] + (IF x.aligned THEN 0 ELSE 1)
         IN  [err |-> "ok",
              embedding |-> IF model_name = "DeepID" THEN <<b, a>>
                            ELSE <<a, b>>]

RECURSIVE SqrtBetween(_, _, _)
\* the integer square root of n, between lo and hi
SqrtBetween(n, lo, hi) ==
    IF lo >= hi THEN lo
    ELSE LET mid == (lo + hi + 1) \div 2
         IN  IF mid * mid <= n THEN SqrtBetween(n, mid, hi)
             ELSE SqrtBetween(n, lo, mid - 1)

ISqrt(n) == SqrtBetween(n, 0, 46340)

Dot(a, b) == a[1] * b[1] + a[2] * b[2]

\* dst.findCosineDistance: 1 - a.b / (|a| |b|)
findCosineDistance(a, b) ==
    Scale - (Scale * Scale * Dot(a, b)) \div ISqrt(Scale * Scale * Dot(a, a) * Dot(b, b))

\* dst.findEuclideanDistance on vectors given in units
findEuclideanDistance(a, b) ==
    ISqrt(Scale * Scale * ((a[1] - b[1]) * (a[1] - b[1]) + (a[2] - b[2]) * (a[2] - b[2])))

\* dst.l2_normalize: the vector in fixed point, of length Scale
l2_normalize(a) ==
    LET norm == ISqrt(Scale * Scale * Dot(a, a))
    IN  <<(Scale * Scale * a[1]) \div norm, (Scale * Scale * a[2]) \div norm>>

\* dst.findEuclideanDistance on two l2-normalised (fixed-point) vectors
findEuclideanDistanceL2(a, b) ==
    LET x == l2_normalize(a)
        y == l2_normalize(b)
    IN  ISqrt((x[1] - y[1]) * (x[1] - y[1]) + (x[2] - y[2]) * (x[2] - y[2]))

Metrics == {"cosine", "euclidean", "euclidean_l2"}

ErrMetric == "ValueError: Invalid distance_metric passed"

\* lines 153-160 and 466-473: the distance, or -1 for the ValueError
Distance(distance_metric, a, b) ==
    CASE distance_metric = "cosine"       -> findCosineDistance(a, b)
      [] distance_metric = "euclidean"    -> findEuclideanDistance(a, b)
      [] distance_metric = "euclidean_l2" -> findEuclideanDistanceL2(a, b)
      [] OTHER                            -> -1

\* dst.findThreshold: the table of decision thresholds; -1 when the pair
\* of model and metric has none
findThreshold(model_name, distance_metric) ==
    CASE model_name = "VGG-Face" /\ distance_metric = "cosine"       -> 40
      [] model_name = "VGG-Face" /\ distance_metric = "euclidean"    -> 120
      [] model_name = "VGG-Face" /\ distance_metric = "euclidean_l2" -> 86
      [] model_name = "DeepID" /\ distance_metric = "cosine"         -> 2
      [] model_name = "DeepID" /\ distance_metric = "euclidean"      -> 4500
      [] model_name = "DeepID" /\ distance_metric = "euclidean_l2"   -> 17
      [] OTHER                                                       -> -1

(***************************************************************************)
(* DeepFace.represent with detector_backend = "skip" on a tensor a caller  *)
(* holds: [err, embedding, reg].                                           *)
(***************************************************************************)
\* represent working on the caller's own array
Copy_Aliased(img) == [img |-> img, aliased |-> TRUE]

\* line 533: img = img_path.copy()
Copy(img) == [img |-> img, aliased |-> FALSE]

\* the caller's array after the call: what the in-place arithmetic of
\* normalize_input left, when represent worked on the array itself
HeldAfter(mine, held, nz) == IF mine.aliased THEN nz.buf ELSE held

\* lines 543-554 on the array mine.img: [err, embedding, reg, held], held the
\* caller's array after the call
RepresentCopy(bm_out, held, mine, nz, model_name) ==
    IF nz.err # "ok"
    THEN [err |-> nz.err, embedding |-> NoEmbedding, reg |-> bm_out.reg,
          held |-> HeldAfter(mine, held, nz)]
    ELSE [err |-> Predict(model_name, nz.out).err,
          embedding |-> Predict(model_name, nz.out).embedding,
          reg |-> bm_out.reg, held |-> HeldAfter(mine, held, nz)]

RepresentSkipBuilt(bm_out, img_content, model_name, normalization) ==
    IF bm_out.err # "ok"
    THEN [err |-> bm_out.err, embedding |-> NoEmbedding, reg |-> bm_out.reg,
          held |-> img_content]
    ELSE RepresentCopy(bm_out, img_content, Copy(img_content),
                       normalize_input(Copy(img_content).img, normalization),
                       model_name)

RepresentSkip(reg, img_content, model_name, normalization) ==
    RepresentSkipBuilt(build_model(reg, model_name), img_content, model_name,
                       normalization)

(***************************************************************************)
(* DeepFace.verify: [err, verified, distance, threshold, facial_areas,     *)
(* distances, regions, reg]; distances and regions are the lists of lines  *)
(* 129-130 as the loops leave them.                                        *)
(***************************************************************************)
ErrTargetSize == "ValueError: unimplemented model name"
ErrMinEmpty   == "ValueError: min() arg is an empty sequence"
ErrThreshold  == "UnsupportedMetricError"

NoRegion == <<0, 0, 0, 0>>

VerifyFailed(err, reg) ==
    [err |-> err, verified |-> FALSE, distance |-> -1, threshold |-> -1,
     facial_areas |-> <<NoRegion, NoRegion>>, distances |-> << >>,
     regions |-> << >>, fed |-> << >>, reg |-> reg]

RECURSIVE VerifyLoop(_, _, _, _, _, _, _, _)
RECURSIVE VerifyPair(_, _, _, _, _, _, _, _, _, _)
\* lines 150-163 for the pair (i, j), e1 and e2 the results of represent
VerifyPair(acc, img1_objs, img2_objs, i, j, model_name, distance_metric, normalization, e1, e2) ==
    IF e1.err # "ok" THEN [acc EXCEPT !.err = e1.err, !.reg = e1.reg]
    ELSE IF e2.err # "ok" THEN [acc EXCEPT !.err = e2.err, !.reg = e2.reg]
    ELSE IF distance_metric \notin Metrics
    THEN [acc EXCEPT !.err = ErrMetric, !.reg = e2.reg]
    ELSE VerifyLoop(
           [err |-> "ok",
            distances |-> Append(acc.distances,
               Distance(distance_metric, e1.embedding, e2.embedding)),
            regions |-> Append(acc.regions,
               <<img1_objs[i].region, img2_objs[j].region>>),
            fed |-> Append(acc.fed,
               <<img1_objs[i].tensor, img2_objs[j].tensor>>),
            reg |-> e2.reg],
           \* the arrays of img1_objs and img2_objs as represent left them
           [img1_objs EXCEPT ![i].tensor = e1.held],
           [img2_objs EXCEPT ![j].tensor = e2.held],
           i, j + 1, model_name, distance_metric, normalization)

\* the loops of lines 132-163 from the pair (i, j) on
VerifyLoop(acc, img1_objs, img2_objs, i, j, model_name, distance_metric, normalization) ==
    IF i > Len(img1_objs) THEN acc
    ELSE IF j > Len(img2_objs)
    THEN VerifyLoop(acc, img1_objs, img2_objs, i + 1, 1, model_name,
                    distance_metric, normalization)
    ELSE LET e1 == RepresentSkip(acc.reg, img1_objs[i].tensor, model_name,
                                 normalization)
         IN  VerifyPair(acc, img1_objs, img2_objs, i, j, model_name,
                        distance_metric, normalization, e1,
                        \* an exception in the first call leaves the second
                        \* uncalled: VerifyPair looks at e1 first
                        RepresentSkip(e1.reg, img2_objs[j].tensor, model_name,
                                      normalization))

\* np.argmin replaced by the index of the last pair
ArgBest_Last(distances) == Len(distances)

\* np.argmin(distances), line 168
ArgBest(distances) == ArgMin(distances)

\* distance <= threshold, line 173
Verified(distance, threshold) == distance <= threshold

\* lines 166-186: the result from the lists the loops left
VerifyResult(lp, threshold) ==
    IF lp.err # "ok" THEN VerifyFailed(lp.err, lp.reg)
    ELSE IF threshold < 0 THEN VerifyFailed(ErrThreshold, lp.reg)
    ELSE IF lp.distances = << >> THEN VerifyFailed(ErrMinEmpty, lp.reg)
    ELSE [err |-> "ok",
          verified |-> Verified(SeqMin(lp.distances), threshold),
          distance |-> SeqMin(lp.distances),
          threshold |-> threshold,
          facial_areas |-> lp.regions[ArgBest(lp.distances)],
          distances |-> lp.distances,
          regions |-> lp.regions,
          fed |-> lp.fed,
          reg |-> lp.reg]

\* lines 129-186, x1 and x2 the results of the two calls of extract_faces
VerifyExtracted(reg, x1, x2, model_name, distance_metric, normalization) ==
    IF x1.err # "ok" THEN VerifyFailed(x1.err, reg)
    ELSE IF x2.err # "ok" THEN VerifyFailed(x2.err, reg)
    ELSE VerifyResult(
           VerifyLoop([err |-> "ok", distances |-> << >>,
                       regions |-> << >>, fed |-> << >>, reg |-> reg],
                      x1.faces, x2.faces, 1, 1, model_name,
                      distance_metric, normalization),
           findThreshold(model_name, distance_metric))

\* the target size verify passes to extract_faces, lines 115 and 123
SwappedTarget(target_size) ==
    [dims |-> <<target_size[2], target_size[1]>>, kind |-> "tuple"]

verify(reg, img1_path, img2_path, model_name, detector_backend, distance_metric, enforce_detection, align, normalization) ==
    IF find_target_size(model_name) = NoSize
    THEN VerifyFailed(ErrTargetSize, reg)
    ELSE VerifyExtracted(reg,
           ExtractFaces(img1_path, SwappedTarget(find_target_size(model_name)),
                        detector_backend, enforce_detection, align),
           \* an exception in the first call leaves the second uncalled:
           \* VerifyExtracted looks at x1 first
           ExtractFaces(img2_path, SwappedTarget(find_target_size(model_name)),
                        detector_backend, enforce_detection, align),
           model_name, distance_metric, normalization)

(***************************************************************************)
(* DeepFace.represent as an entry point: [err, objs, fed, reg, buf]; objs  *)
(* the list of [embedding, facial_area], fed the arrays handed to          *)
(* model.predict, buf the caller's image array after the call.             *)
(***************************************************************************)
\* an image array as the arithmetic of normalize_input sees it
Pixels(img) ==
    [NoTensor EXCEPT !.h = img.h, !.w = img.w, !.fid = img.id,
                     !.scale = "pixels"]

RepresentFailed(err, reg, buf) ==
    [err |-> err, objs |-> << >>, fed |-> << >>, reg |-> reg, buf |-> buf]

RECURSIVE RepresentLoop(_, _, _, _, _)
RECURSIVE RepresentFace(_, _, _, _, _, _)
\* lines 545-556 for img_objs[k], nz the result of normalize_input
RepresentFace(acc, img_objs, k, model_name, normalization, nz) ==
    IF nz.err # "ok" THEN [acc EXCEPT !.err = nz.err]
    ELSE IF Predict(model_name, nz.out).err # "ok"
    THEN [acc EXCEPT !.err = Predict(model_name, nz.out).err,
                     !.fed = Append(acc.fed, nz.out)]
    ELSE RepresentLoop(
           [acc EXCEPT !.objs = Append(acc.objs,
                          [embedding |-> Predict(model_name, nz.out).embedding,
                           facial_area |-> img_objs[k].region]),
                       !.fed = Append(acc.fed, nz.out)],
           img_objs, k + 1, model_name, normalization)

\* the loop of lines 541-556 from img_objs[k] on
RepresentLoop(acc, img_objs, k, model_name, normalization) ==
    IF k > Len(img_objs) THEN acc
    ELSE RepresentFace(acc, img_objs, k, model_name, normalization,
                       normalize_input(img_objs[k].tensor, normalization))

\* lines 520-528 and 541-558: the faces extract_faces returned
RepresentExtracted(reg, buf, x, model_name, normalization) ==
    IF x.err # "ok" THEN RepresentFailed(x.err, reg, buf)
    ELSE RepresentLoop([err |-> "ok", objs |-> << >>, fed |-> << >>,
                        reg |-> reg, buf |-> buf],
                       x.faces, 1, model_name, normalization)

\* lines 529-558 with detector_backend = "skip" on an image array: the
\* whole array is the one face, normalised as mine.img
RepresentWhole(reg, img, mine, nz, model_name) ==
    IF nz.err # "ok"
    THEN RepresentFailed(nz.err, reg, HeldAfter(mine, Pixels(img), nz))
    ELSE IF Predict(model_name, nz.out).err # "ok"
    THEN [err |-> Predict(model_name, nz.out).err, objs |-> << >>,
          fed |-> <<nz.out>>, reg |-> reg,
          buf |-> HeldAfter(mine, Pixels(img), nz)]
    ELSE [err |-> "ok",
          objs |-> << [embedding |-> Predict(model_name, nz.out).embedding,
                       facial_area |-> <<0, 0, img.w, img.h>>] >>,
          fed |-> <<nz.out>>, reg |-> reg,
          buf |-> HeldAfter(mine, Pixels(img), nz)]

\* lines 529-538: the image of the skip branch; a path is read by
\* load_image, an array is copied
RepresentSkipped(reg, src, ld, model_name, normalization) ==
    IF ld.err # "ok" THEN RepresentFailed(ld.err, reg, Pixels(src.img))
    ELSE IF ~ld.decoded THEN RepresentFailed(ErrAttr, reg, Pixels(src.img))
    ELSE IF src.kind = "array"
    THEN RepresentWhole(reg, ld.img, Copy(Pixels(ld.img)),
                        normalize_input(Copy(Pixels(ld.img)).img, normalization),
                        model_name)
    ELSE RepresentWhole(reg, ld.img, [img |-> Pixels(ld.img), aliased |-> FALSE],
                        normalize_input(Pixels(ld.img), normalization),
                        model_name)

\* lines 516-558 after build_model
RepresentBuilt(bm_out, src, model_name, detector_backend, enforce_detection, align, normalization) ==
    IF bm_out.err # "ok"
    THEN RepresentFailed(bm_out.err, bm_out.reg, Pixels(src.img))
    ELSE IF detector_backend = "skip"
    THEN RepresentSkipped(bm_out.reg, src, load_image(src), model_name,
                          normalization)
    ELSE IF find_target_size(model_name) = NoSize
    THEN RepresentFailed(ErrTargetSize, bm_out.reg, Pixels(src.img))
    ELSE RepresentExtracted(bm_out.reg, Pixels(src.img),
           ExtractFaces(src, [dims |-> find_target_size(model_name),
                              kind |-> "tuple"],
                        detector_backend, enforce_detection, align),
           model_name, normalization)

represent(reg, src, model_name, detector_backend, enforce_detection, align, normalization) ==
    RepresentBuilt(build_model(reg, model_name), src, model_name,
                   detector_backend, enforce_detection, align, normalization)

(***************************************************************************)
(* DeepFace.analyze, lines 188-325.  The actions argument is a str or a    *)
(* collection of names; a result dict is followed by its keys and by the   *)
(* value under "region" (None while the key is not set).                   *)
(***************************************************************************)
\* lines 240-243: a str becomes a tuple of one name, then list(actions)
ActionList(actions) ==
    IF actions.kind = "str" THEN << actions.value >> ELSE actions.value

InActions(action, actions) == \E i \in 1..Len(actions) : actions[i] = action

\* the facial attribute models, as (action, model name), lines 247-257
AnalyzeModelNames ==
    << <<"emotion", "Emotion">>, <<"age", "Age">>, <<"gender", "Gender">>,
       <<"race", "Race">> >>

\* models[action] = build_model(name)
ModelBuilt(acc, action, b) ==
    [err |-> b.err, reg |-> b.reg, models |-> acc.models \cup {action}]

RECURSIVE AnalyzeModels(_, _, _)
\* lines 246-257 from the k-th model on
AnalyzeModels(acc, actions, k) ==
    IF k > Len(AnalyzeModelNames) \/ acc.err # "ok" THEN acc
    ELSE IF InActions(AnalyzeModelNames[k][1], actions)
    THEN AnalyzeModels(ModelBuilt(acc, AnalyzeModelNames[k][1],
                                  build_model(acc.reg, AnalyzeModelNames[k][2])),
                       actions, k + 1)
    ELSE AnalyzeModels(acc, actions, k + 1)

\* the keys one action sets in obj, lines 272-316
ActionKeys(action) ==
    CASE action = "emotion" -> {"emotion", "dominant_emotion"}
      [] action = "age"     -> {"age"}
      [] action = "gender"  -> {"gender", "dominant_gender"}
      [] action = "race"    -> {"race", "dominant_race"}
      [] OTHER              -> {}

RECURSIVE AnalyzeActions(_, _, _, _, _)
\* the loop of lines 268-321 over the actions, from the k-th on; the model
\* of a recognized action is in models, else models[action] raises KeyError
AnalyzeActions(obj, img_region, actions, models, k) ==
    IF k > Len(actions) \/ obj.err # "ok" THEN obj
    ELSE IF ActionKeys(actions[k]) # {} /\ actions[k] \notin models
    THEN [obj EXCEPT !.err = ErrKey]
    ELSE AnalyzeActions([err |-> "ok",
                         keys |-> obj.keys \cup ActionKeys(actions[k])
                                           \cup {"region"},
                         region |-> img_region],
                        img_region, actions, models, k + 1)

\* lines 265-323 for one face: obj = {} and the loop over the actions
AnalyzeFace(img_obj, actions, models) ==
    AnalyzeActions([err |-> "ok", keys |-> {}, region |-> None],
                   img_obj.region, actions, models, 1)

RECURSIVE AnalyzeLoop(_, _, _, _, _)

\* line 323: resp_objects.append(obj)
AnalyzeAppend(acc, obj, img_objs, actions, models, k) ==
    IF obj.err # "ok" THEN [err |-> obj.err, resp |-> << >>]
    ELSE AnalyzeLoop([acc EXCEPT !.resp = Append(@, [keys |-> obj.keys,
                                                     region |-> obj.region])],
                     img_objs, actions, models, k + 1)

\* the loop of lines 263-323 over img_objs, from the k-th face on; the
\* tensor is a batch of one image, shape (1, h, w, 3)
AnalyzeLoop(acc, img_objs, actions, models, k) ==
    IF k > Len(img_objs) THEN acc
    ELSE IF 1 > 0 /\ img_objs[k].tensor.h > 0
    THEN AnalyzeAppend(acc, AnalyzeFace(img_objs[k], actions, models),
                       img_objs, actions, models, k)
    ELSE AnalyzeLoop(acc, img_objs, actions, models, k + 1)

AnalyzeFailed(err, reg) == [err |-> err, resp |-> << >>, reg |-> reg]

\* lines 259-325 after extract_faces
AnalyzeExtracted(built, extracted, actions) ==
    IF extracted.err # "ok" THEN AnalyzeFailed(extracted.err, built.reg)
    ELSE [reg |-> built.reg] @@
         AnalyzeLoop([err |-> "ok", resp |-> << >>], extracted.faces, actions,
                     built.models, 1)

\* lines 259-325 after the models are built
AnalyzeBuilt(built, src, actions, detector_backend, enforce_detection, align) ==
    IF built.err # "ok" THEN AnalyzeFailed(built.err, built.reg)
    ELSE AnalyzeExtracted(built,
             ExtractFaces(src, [dims |-> <<224, 224>>, kind |-> "tuple"],
                          detector_backend, enforce_detection, align),
             actions)

\* [err, resp, reg]: the list of result dicts and the registry after the call
analyze(reg, src, actions, detector_backend, enforce_detection, align) ==
    AnalyzeBuilt(AnalyzeModels([err |-> "ok", reg |-> reg, models |-> {}],
                               ActionList(actions), 1),
                 src, ActionList(actions), detector_backend, enforce_detection,
                 align)

(***************************************************************************)
(* The images of the model.  A detection is a crop (its shape, the         *)
(* identity fid of its pixels), its bounding box (x, y, w, h) and its      *)
(* confidence in percent.                                                  *)
(***************************************************************************)
Image(name) ==
    CASE name = "anna" ->
           [h |-> 300, w |-> 200, id |-> 11,
            dets |-> << [h |-> 55, w |-> 40, fid |-> 1,
                         region |-> <<70, 60, 40, 55>>, conf |-> 99] >>]
      [] name = "anna2" ->
           [h |-> 240, w |-> 240, id |-> 12,
            dets |-> << [h |-> 60, w |-> 60, fid |-> 2,
                         region |-> <<90, 50, 60, 60>>, conf |-> 98] >>]
      [] name = "bob" ->
           [h |-> 300, w |-> 200, id |-> 13,
            dets |-> << [h |-> 80, w |-> 64, fid |-> 3,
                         region |-> <<60, 40, 64, 80>>, conf |-> 97] >>]
      [] name = "group" ->
           [h |-> 200, w |-> 300, id |-> 14,
            dets |-> << [h |-> 50, w |-> 40, fid |-> 5,
                         region |-> <<20, 30, 40, 50>>, conf |-> 95],
                        [h |-> 48, w |-> 40, fid |-> 4,
                         region |-> <<200, 35, 40, 48>>, conf |-> 93] >>]
      [] name = "blank" ->
           [h |-> 100, w |-> 100, id |-> 15, dets |-> << >>]
      [] name = "sliver" ->
           [h |-> 100, w |-> 100, id |-> 16,
            dets |-> << [h |-> 30, w |-> 0, fid |-> 6,
                         region |-> <<100, 10, 0, 30>>, conf |-> 60] >>]
      [] name = "strip" ->
           [h |-> 300, w |-> 1, id |-> 17, dets |-> << >>]

ImageNames == {"anna", "anna2", "bob", "group", "blank", "sliver", "strip"}

\* the images handed to verify: arrays, and paths that do not load
VerifySources ==
    { [kind |-> "array", img |-> Image(n)] : n \in ImageNames }
    \cup { [kind |-> "missing", img |-> NoImage],
           [kind |-> "unreadable", img |-> NoImage] }

VerifyModels == {"VGG-Face", "DeepID", "Bogus"}

VerifyMetrics == Metrics \cup {"manhattan"}

Normalizations == {"base", "Facenet", "bogus"}

\* the registry as a single caller finds it
Registry == [defined |-> model_obj_defined, obj |-> model_obj, loads |-> loads]

\* a single caller is at work: no call of build_model is under way
Sequential == \A t \in Threads : pc[t] = "idle"

SetRegistry(reg) ==
    /\ model_obj_defined' = reg.defined
    /\ model_obj' = reg.obj
    /\ loads' = reg.loads
    /\ UNCHANGED <<returned, pc, req, local, raised>>

InitVf == vf = << >>

\* one call of DeepFace.verify
VerifyCallOn(sources, models, backends, metrics, normalizations) ==
    /\ vf = << >>
    /\ Sequential
    /\ \E img1 \in sources, img2 \in sources,
          model_name \in models, backend \in backends,
          metric \in metrics, enforce \in BOOLEAN, align \in BOOLEAN,
          normalization \in normalizations :
        \E out \in { verify(Registry, img1, img2, model_name, backend, metric,
                            enforce, align, normalization) } :
            /\ vf' = << [img1 |-> img1, img2 |-> img2,
                         model_name |-> model_name, backend |-> backend,
                         metric |-> metric, enforce |-> enforce,
                         align |-> align, normalization |-> normalization,
                         out |-> out] >>
            /\ SetRegistry(out.reg)
    /\ UNCHANGED <<exVars, fdVars>>

\* a list of image pairs, as the bulk test passes to verify
PairList(pairs) == [kind |-> "list", img |-> NoImage, pairs |-> pairs]

PairLists ==
    { PairList(<< >>),
      PairList(<< <<[kind |-> "array", img |-> Image("anna")],
                    [kind |-> "array", img |-> Image("anna2")]>> >>),
      PairList(<< <<[kind |-> "array", img |-> Image("anna")],
                    [kind |-> "array", img |-> Image("anna2")]>>,
                  <<[kind |-> "array", img |-> Image("anna")],
                    [kind |-> "array", img |-> Image("bob")]>> >>) }

\* no second argument: img2_path has no default value, line 71
Omitted == [kind |-> "omitted", img |-> NoImage]

ErrMissingArg == "TypeError: verify() missing 1 required positional argument: 'img2_path'"

\* one call of DeepFace.verify with a list of pairs as img1_path, alone as
\* in the bulk test or with a second image
VerifyBulkCall ==
    /\ vf = << >>
    /\ Sequential
    /\ \E img1 \in PairLists,
          img2 \in {Omitted, [kind |-> "array", img |-> Image("anna")]},
          model_name \in {"VGG-Face"}, enforce \in BOOLEAN :
        \E out \in { IF img2 = Omitted
                     THEN VerifyFailed(ErrMissingArg, Registry)
                     ELSE verify(Registry, img1, img2, model_name, "opencv",
                                 "cosine", enforce, TRUE, "base") } :
            /\ vf' = << [img1 |-> img1, img2 |-> img2,
                         model_name |-> model_name, backend |-> "opencv",
                         metric |-> "cosine", enforce |-> enforce,
                         align |-> TRUE, normalization |-> "base",
                         out |-> out] >>
            /\ SetRegistry(out.reg)
    /\ UNCHANGED <<exVars, fdVars>>

VerifyCall ==
    VerifyCallOn(VerifySources, VerifyModels, ExBackends, VerifyMetrics,
                 Normalizations)

\* the caller is done with the result of verify
VerifyDone ==
    /\ vf # << >>
    /\ vf' = << >>
    /\ UNCHANGED <<exVars, regVars, fdVars>>

(***************************************************************************)
(* DeepFace.find.  The gallery directory maps each file name to what the   *)
(* file holds: "absent", "text" (not an image) or the name of an image.    *)
(* A file name is the sequence of its parts, so that '.jpg' in             *)
(* file.lower() can be computed.  The cache maps a file name               *)
(* representations_<model>.pkl to [exists, reps].                          *)
(***************************************************************************)
\* the changes to the gallery directory a behaviour may hold
MaxEdits == 1

FileA == <<"a", ".jpg">>
FileB == <<"b", ".PNG">>
FileC == <<"c", ".jpg", ".bak">>
FileN == <<"notes", ".txt">>

\* the files of the gallery directory, in the order os.walk lists them
FileOrder == <<FileA, FileB, FileC, FileN>>

FileNames == { FileOrder[i] : i \in 1..Len(FileOrder) }

\* str.lower() on a part of a file name
Lower(part) ==
    CASE part = ".PNG" -> ".png"
      [] part = ".JPG" -> ".jpg"
      [] OTHER         -> part

\* line 380: '.jpg' in file.lower() or '.jpeg' in ... or '.png' in ...
IsImageName(file) ==
    \E i \in 1..Len(file) : Lower(file[i]) \in {".jpg", ".jpeg", ".png"}

\* lines 361-362: the name of the cache file of a model
CacheFile(model_name) ==
    CASE model_name = "VGG-Face" -> "representations_vgg_face.pkl"
      [] model_name = "DeepID"   -> "representations_deepid.pkl"
      [] OTHER                   -> "representations_other.pkl"

CacheFiles == {"representations_vgg_face.pkl", "representations_deepid.pkl",
               "representations_other.pkl"}

NoCache == [exists |-> FALSE, reps |-> << >>]

ErrNoDb         == "ValueError: Passed db_path does not exist!"
ErrEmptyGallery == "ValueError: There is no image in folder"

\* a path of the gallery as an image source for load_image
FileSource(dir, file) ==
    CASE dir[file] = "absent" -> [kind |-> "missing", img |-> NoImage]
      [] dir[file] = "text"   -> [kind |-> "unreadable", img |-> NoImage]
      [] OTHER                -> [kind |-> "path", img |-> Image(dir[file])]

\* lines 376-382: the walk of db_path
Employees(dir) ==
    SelectSeq(FileOrder, LAMBDA f : dir[f] # "absent" /\ IsImageName(f))

RECURSIVE BuildFaces(_, _, _, _, _, _)
RECURSIVE BuildFace(_, _, _, _, _, _, _)
\* lines 413-419 for face k of a file, e the result of represent
BuildFace(acc, employee, img_objs, k, model_name, normalization, e) ==
    IF e.err # "ok"
    THEN [err |-> e.err, reps |-> acc.reps, reg |-> e.reg]
    ELSE BuildFaces(
           [err |-> "ok",
            reps |-> Append(acc.reps, [identity |-> employee,
                                       embedding |-> e.embedding]),
            reg |-> e.reg],
           employee, img_objs, k + 1, model_name, normalization)

\* only the first face of a file is represented
BuildFaces_FirstFace(acc, employee, img_objs, k, model_name, normalization) ==
    IF k > 1 \/ k > Len(img_objs) THEN acc
    ELSE BuildFace(acc, employee, img_objs, k, model_name, normalization,
                   RepresentSkip(acc.reg, img_objs[k].tensor, model_name,
                                 normalization))

\* lines 405-419 for the faces of one file, from face k on
BuildFaces(acc, employee, img_objs, k, model_name, normalization) ==
    IF k > Len(img_objs) THEN acc
    ELSE BuildFace(acc, employee, img_objs, k, model_name, normalization,
                   RepresentSkip(acc.reg, img_objs[k].tensor, model_name,
                                 normalization))

RECURSIVE BuildLoop(_, _, _, _, _, _)
RECURSIVE BuildFile(_, _, _, _, _, _, _)
RECURSIVE BuildRest(_, _, _, _, _, _)
\* the loop of line 394 after the file at the head of employees, r the
\* representations so far or the exception of that file
BuildRest(r, dir, employees, target, model_name, a) ==
    IF r.err # "ok" THEN r
    ELSE BuildLoop(r, dir, Tail(employees), target, model_name, a)

\* lines 405-419 for the file at the head of employees, x the result of
\* extract_faces
BuildFile(acc, dir, employees, target, model_name, a, x) ==
    IF x.err # "ok"
    THEN [err |-> x.err, reps |-> acc.reps, reg |-> acc.reg]
    ELSE BuildRest(BuildFaces(acc, Head(employees), x.faces, 1, model_name,
                              a.normalization),
                   dir, employees, target, model_name, a)

\* lines 394-419: the representations of the files of employees
BuildLoop(acc, dir, employees, target, model_name, a) ==
    IF employees = << >> THEN acc
    ELSE BuildFile(acc, dir, employees, target, model_name, a,
                   ExtractFaces(FileSource(dir, Head(employees)), target,
                                a.backend, a.enforce, a.align))

RECURSIVE Distances(_, _, _)
\* lines 462-475: the distance of every record of the store to the target
Distances(reps, distance_metric, target_representation) ==
    IF reps = << >> THEN << >>
    ELSE <<Distance(distance_metric, Head(reps).embedding,
                    target_representation)>>
         \o Distances(Tail(reps), distance_metric, target_representation)

\* every record of the store, whatever its distance
FilteredRows_NoFilter(reps, distances, threshold, target_region) ==
    [i \in 1..Len(reps) |->
        [identity |-> reps[i].identity,
         distance |-> distances[i],
         source |-> target_region]]

\* lines 456-483: the rows of one target face within the threshold, in the
\* order of the store
FilteredRows(reps, distances, threshold, target_region) ==
    LET all == [i \in 1..Len(reps) |->
                   [identity |-> reps[i].identity,
                    distance |-> distances[i],
                    source |-> target_region]]
    IN  SelectSeq(all, LAMBDA row : row.distance <= threshold)

RECURSIVE QueryLoop(_, _, _, _, _, _)
RECURSIVE QueryFace(_, _, _, _, _, _, _, _)
\* lines 454-486 for target face k, e the result of represent
QueryFace(acc, reps, target_objs, k, model_name, a, e, threshold) ==
    IF e.err # "ok"
    THEN [err |-> e.err, rows |-> acc.rows, held |-> Append(acc.held, e.held),
          reg |-> e.reg]
    ELSE IF reps # << >> /\ a.metric \notin Metrics
    THEN [err |-> ErrMetric, rows |-> acc.rows,
          held |-> Append(acc.held, e.held), reg |-> e.reg]
    ELSE IF threshold < 0
    THEN [err |-> ErrThreshold, rows |-> acc.rows,
          held |-> Append(acc.held, e.held), reg |-> e.reg]
    ELSE QueryLoop(
           [err |-> "ok",
            rows |-> Append(acc.rows,
                       FilteredRows(reps,
                           Distances(reps, a.metric, e.embedding),
                           threshold, target_objs[k].region)),
            \* the array of target face k as represent left it
            held |-> Append(acc.held, e.held),
            reg |-> e.reg],
           reps, target_objs, k + 1, model_name, a)

\* lines 445-486 from target face k on: [err, rows, held, reg], held the
\* arrays of the target faces after their calls of represent
QueryLoop(acc, reps, target_objs, k, model_name, a) ==
    IF k > Len(target_objs) THEN acc
    ELSE QueryFace(acc, reps, target_objs, k, model_name, a,
                   RepresentSkip(acc.reg, target_objs[k].tensor, model_name,
                                 a.normalization),
                   findThreshold(model_name, a.metric))

\* the cache file is never found
CacheExists_Never(entry) == FALSE

\* line 364: path.exists(db_path + "/" + file_name)
CacheExists(entry) == entry.exists

FindFailed(err, reg, entry, walked, store) ==
    [err |-> err, rows |-> << >>, held |-> << >>, reg |-> reg,
     entry |-> entry, walked |-> walked, store |-> store]

\* the cache file serves only the calls with the settings of line 327
FindStore_PerSettings(reg, dir, entry, target, a) ==
    IF /\ CacheExists(entry)
       /\ a.backend = "opencv" /\ a.enforce /\ a.align
       /\ a.normalization = "base"
    THEN [err |-> "ok", reps |-> entry.reps, reg |-> reg]
    ELSE IF Employees(dir) = << >>
    THEN [err |-> ErrEmptyGallery, reps |-> << >>, reg |-> reg]
    ELSE BuildLoop([err |-> "ok", reps |-> << >>, reg |-> reg],
                   dir, Employees(dir), target, a.model_name, a)

\* lines 364-428: the representations of the gallery, loaded from the cache
\* file or built: [err, reps, reg]
FindStore(reg, dir, entry, target, a) ==
    IF CacheExists(entry)
    THEN [err |-> "ok", reps |-> entry.reps, reg |-> reg]
    ELSE IF Employees(dir) = << >>
    THEN [err |-> ErrEmptyGallery, reps |-> << >>, reg |-> reg]
    ELSE BuildLoop([err |-> "ok", reps |-> << >>, reg |-> reg],
                   dir, Employees(dir), target, a.model_name, a)

\* the end of find, q the result of the loop of line 445
FindRows(built, walked, q) ==
    [err |-> q.err,
     rows |-> IF q.err = "ok" THEN q.rows ELSE << >>,
     held |-> q.held,
     reg |-> q.reg,
     entry |-> [exists |-> TRUE, reps |-> built.reps],
     walked |-> walked, store |-> built.reps]

\* lines 445-495, x the result of extract_faces on the probe
FindAnswer(built, walked, a, x) ==
    IF x.err # "ok"
    THEN FindFailed(x.err, built.reg,
                    [exists |-> TRUE, reps |-> built.reps], walked,
                    built.reps)
    ELSE FindRows(built, walked,
                  QueryLoop([err |-> "ok", rows |-> << >>, held |-> << >>,
                             reg |-> built.reg],
                            built.reps, x.faces, 1, a.model_name, a))

\* the records built before the exception are written to the cache file
FindQuery_PersistPartial(built, entry, walked, target, a) ==
    IF built.err # "ok"
    THEN FindFailed(built.err, built.reg,
                    [exists |-> TRUE, reps |-> built.reps], walked, built.reps)
    ELSE FindAnswer(built, walked, a,
                    ExtractFaces(a.probe, target, a.backend, a.enforce,
                                 a.align))

\* lines 430-495, built the representations of the gallery
FindQuery(built, entry, walked, target, a) ==
    IF built.err # "ok"
    THEN FindFailed(built.err, built.reg, entry, walked, << >>)
    ELSE FindAnswer(built, walked, a,
                    ExtractFaces(a.probe, target, a.backend, a.enforce,
                                 a.align))

\* the target size find passes to extract_faces, lines 398 and 436
FindTarget(model_name) ==
    [dims |-> find_target_size(model_name), kind |-> "tuple"]

\* DeepFace.find up to the sort of line 484: [err, rows, held, reg, entry,
\* walked, store]; entry is the cache file of the model after the call, store the
\* representations the query used, walked whether db_path was walked.
\* The arguments are a = [isdir, probe, model_name, metric, backend,
\* enforce, align, normalization].
find(reg, dir, entry, a) ==
    IF ~a.isdir THEN FindFailed(ErrNoDb, reg, entry, FALSE, << >>)
    ELSE IF find_target_size(a.model_name) = NoSize
    THEN FindFailed(ErrTargetSize, reg, entry, FALSE, << >>)
    ELSE FindQuery(FindStore(reg, dir, entry, FindTarget(a.model_name), a),
                   entry, ~CacheExists(entry), FindTarget(a.model_name), a)

RECURSIVE SortedOrders_Descending(_, _)
\* the orders of the rows that descend by distance
SortedOrders_Descending(rows, S) ==
    IF S = {} THEN { << >> }
    ELSE UNION { { <<rows[i]>> \o rest :
                     rest \in SortedOrders_Descending(rows, S \ {i}) } :
                 i \in { i \in S : \A j \in S : rows[i].distance >= rows[j].distance } }

RECURSIVE SortedOrders(_, _)
\* sort_values(by distance, ascending): the orders of the rows with indices
\* S that ascend by distance; rows of equal distance come in any order
SortedOrders(rows, S) ==
    IF S = {} THEN { << >> }
    ELSE UNION { { <<rows[i]>> \o rest : rest \in SortedOrders(rows, S \ {i}) } :
                 i \in { i \in S : \A j \in S : rows[i].distance <= rows[j].distance } }

RECURSIVE Responses(_)
\* the lists resp_obj the call may return: one sorted frame per target face
Responses(rows) ==
    IF rows = << >> THEN { << >> }
    ELSE { <<first>> \o rest :
             first \in SortedOrders(Head(rows), 1..Len(Head(rows))),
             rest \in Responses(Tail(rows)) }

\* a gallery directory holding the given files
Gallery(held) ==
    [f \in FileNames |-> IF f \in DOMAIN held THEN held[f] ELSE "absent"]

\* the gallery directories a behaviour starts from
InitialGalleries ==
    { Gallery(FileA :> "anna" @@ FileB :> "bob"),
      Gallery(FileA :> "anna" @@ FileB :> "anna"),
      Gallery(FileA :> "anna" @@ FileB :> "anna2"),
      Gallery(FileA :> "group" @@ FileN :> "text"),
      Gallery(FileA :> "anna" @@ FileB :> "blank"),
      Gallery(FileN :> "text"),
      Gallery(FileC :> "anna" @@ FileN :> "text") }

\* what a file added to the gallery holds
AddContents == {"bob", "group"}

\* the probe images of find: arrays, and paths into the gallery
FindProbes ==
    { [kind |-> "array", name |-> n] : n \in {"anna2", "group", "blank"} }
    \cup { [kind |-> "file", name |-> f] : f \in {FileA, FileB, FileC} }

ProbeSource(dir, probe) ==
    IF probe.kind = "array" THEN [kind |-> "array", img |-> Image(probe.name)]
    ELSE FileSource(dir, probe.name)

\* the settings of detector_backend, enforce_detection, align, normalization
FindConfigs ==
    { [backend |-> "opencv", enforce |-> TRUE,  align |-> TRUE,  normalization |-> "base"],
      [backend |-> "opencv", enforce |-> FALSE, align |-> TRUE,  normalization |-> "base"],
      [backend |-> "skip",   enforce |-> TRUE,  align |-> FALSE, normalization |-> "Facenet"],
      [backend |-> "opencv", enforce |-> TRUE,  align |-> TRUE,  normalization |-> "bogus"] }

FindMetrics == {"cosine", "euclidean", "manhattan"}

\* the default settings of find
DefaultConfig ==
    [backend |-> "opencv", enforce |-> TRUE, align |-> TRUE, normalization |-> "base"]

FindCallArgs(isdir, probe, model_name, metric, c) ==
    [isdir |-> isdir, probe |-> probe, model_name |-> model_name,
     metric |-> metric, backend |-> c.backend, enforce |-> c.enforce,
     align |-> c.align, normalization |-> c.normalization]

\* the arguments of the calls of find
FindArgs ==
    { FindCallArgs(TRUE, pr, "VGG-Face", d, c) :
        pr \in FindProbes, d \in FindMetrics, c \in FindConfigs }
    \cup
    { FindCallArgs(TRUE, pr, "DeepID", "cosine", DefaultConfig) :
        pr \in { [kind |-> "array", name |-> "anna2"],
                 [kind |-> "file", name |-> FileA] } }
    \cup
    { FindCallArgs(dr, [kind |-> "array", name |-> "anna2"], m, "cosine",
                   DefaultConfig) :
        dr \in BOOLEAN, m \in {"VGG-Face", "Bogus"} }

InitFind ==
    /\ db \in InitialGalleries
    /\ cache = [c \in CacheFiles |-> NoCache]
    /\ fd = << >>
    /\ edits = 0

\* one call of DeepFace.find on the gallery directory
FindCallOn(args) ==
    /\ fd = << >>
    /\ Sequential
    /\ \E a \in args :
        \E out \in { find(Registry, db, cache[CacheFile(a.model_name)],
                          [a EXCEPT !.probe = ProbeSource(db, a.probe)]) } :
          \E resp \in Responses(out.rows) :
              /\ fd' = << [args |-> a,
                           before |-> cache[CacheFile(a.model_name)],
                           dir |-> db, out |-> out, resp |-> resp] >>
              /\ cache' = [cache EXCEPT ![CacheFile(a.model_name)] = out.entry]
              /\ SetRegistry(out.reg)
    /\ UNCHANGED <<db, edits, exVars, vfVars>>

FindCall == FindCallOn(FindArgs)

\* the caller is done with the result of find
FindDone ==
    /\ fd # << >>
    /\ fd' = << >>
    /\ UNCHANGED <<db, cache, edits, exVars, vfVars, regVars>>

\* somebody adds an image file to the gallery directory
AddFile ==
    /\ fd = << >>
    /\ edits < MaxEdits
    /\ \E f \in FileNames, n \in AddContents :
        /\ db[f] = "absent"
        /\ db' = [db EXCEPT ![f] = n]
    /\ edits' = edits + 1
    /\ UNCHANGED <<cache, fd, exVars, vfVars, regVars>>

\* somebody removes a file from the gallery directory
RemoveFile ==
    /\ fd = << >>
    /\ edits < MaxEdits
    /\ \E f \in FileNames :
        /\ db[f] # "absent"
        /\ db' = [db EXCEPT ![f] = "absent"]
    /\ edits' = edits + 1
    /\ UNCHANGED <<cache, fd, exVars, vfVars, regVars>>

\* the caller deletes the cache file of a model
DeleteCache ==
    /\ fd = << >>
    /\ \E c \in CacheFiles :
        /\ cache[c].exists
        /\ cache' = [cache EXCEPT ![c] = NoCache]
    /\ UNCHANGED <<db, fd, edits, exVars, vfVars, regVars>>

\* the model names a sole caller asks build_model and represent for
EntryModels == {"VGG-Face", "DeepID", "Emotion", "Bogus"}

\* the image sources of the calls of represent
RepresentSources ==
    { [kind |-> "array", img |-> Image(n)] : n \in {"anna", "group", "blank"} }
    \cup { [kind |-> "path", img |-> Image("anna2")],
           [kind |-> "missing", img |-> NoImage] }

\* the normalization arguments of the calls of represent
RepresentNormalizations == {"base", "raw", "Facenet", "ArcFace", "bogus"}

\* the arguments of the calls of verify and find of a sole caller who also
\* calls build_model and represent
EntrySources ==
    { [kind |-> "array", img |-> Image(n)] : n \in {"anna", "group"} }
    \cup { [kind |-> "missing", img |-> NoImage] }

EntryNormalizations == {"base", "Facenet"}

EntryFindArgs ==
    { FindCallArgs(dr, pr, m, "cosine",
                   [DefaultConfig EXCEPT !.normalization = nz]) :
        dr \in BOOLEAN,
        pr \in { [kind |-> "array", name |-> "group"],
                 [kind |-> "file", name |-> FileA] },
        m \in EntryModels, nz \in EntryNormalizations }

VerifyEntry ==
    VerifyCallOn(EntrySources, EntryModels, {"opencv"}, {"cosine"},
                 EntryNormalizations)

FindEntry == FindCallOn(EntryFindArgs)

InitAp == bm = << >> /\ rp = << >> /\ az = << >>

\* no entry point call is held
NoCallHeld == bm = << >> /\ rp = << >> /\ vf = << >> /\ fd = << >>

\* one call of build_model by a sole caller
BuildModelCall ==
    /\ NoCallHeld
    /\ Sequential
    /\ \E model_name \in EntryModels :
        \E out \in { build_model(Registry, model_name) } :
            /\ bm' = << [model_name |-> model_name, out |-> out] >>
            /\ SetRegistry(out.reg)
    /\ UNCHANGED <<rp, az, exVars, vfVars, fdVars>>

\* the caller is done with the predictor
BuildModelDone ==
    /\ bm # << >>
    /\ bm' = << >>
    /\ UNCHANGED <<rp, az, exVars, vfVars, fdVars, regVars>>

\* one call of DeepFace.represent
RepresentCall ==
    /\ NoCallHeld
    /\ Sequential
    /\ \E src \in RepresentSources, model_name \in EntryModels,
          backend \in ExBackends, enforce \in BOOLEAN, align \in BOOLEAN,
          normalization \in RepresentNormalizations :
        \E out \in { represent(Registry, src, model_name, backend, enforce,
                               align, normalization) } :
            /\ rp' = << [src |-> src, model_name |-> model_name,
                         backend |-> backend, enforce |-> enforce,
                         align |-> align, normalization |-> normalization,
                         out |-> out] >>
            /\ SetRegistry(out.reg)
    /\ UNCHANGED <<bm, az, exVars, vfVars, fdVars>>

\* the caller is done with the embeddings
RepresentDone ==
    /\ rp # << >>
    /\ rp' = << >>
    /\ UNCHANGED <<bm, az, exVars, vfVars, fdVars, regVars>>

\* no gallery directory is in use
InitNoGallery ==
    /\ db = Gallery(FileN :> "text")
    /\ cache = [c \in CacheFiles |-> NoCache]
    /\ fd = << >>
    /\ edits = 0

Init == InitEx /\ InitReg /\ InitVf /\ InitAp /\ InitNoGallery

\* the process started with a gallery directory on the disk
InitGallery == InitEx /\ InitReg /\ InitVf /\ InitAp /\ InitFind

NextExtract == ExtractCall /\ UNCHANGED apVars

SpecExtract == Init /\ [][NextExtract]_vars

\* callers on several threads, their steps interleaved
NextRegistry ==
    \E t \in Threads :
        (Call(t) \/ Step(t)) /\ UNCHANGED <<exVars, vfVars, fdVars, apVars>>

SpecRegistry == Init /\ [][NextRegistry]_vars

\* one call after the other: a call starts when no other is under way
NextRegistrySeq ==
    \E t \in Threads :
        /\ \A u \in Threads \ {t} : pc[u] = "idle"
        /\ (Call(t) \/ Step(t))
        /\ UNCHANGED <<exVars, vfVars, fdVars, apVars>>

SpecRegistrySeq == Init /\ [][NextRegistrySeq]_vars

NextVerify == (VerifyCall \/ VerifyBulkCall \/ VerifyDone) /\ UNCHANGED apVars

SpecVerify == Init /\ [][NextVerify]_vars

NextFind ==
    /\ FindCall \/ FindDone \/ AddFile \/ RemoveFile \/ DeleteCache
    /\ UNCHANGED apVars

SpecFind == InitGallery /\ [][NextFind]_vars

\* the images and the actions arguments of the calls of analyze
AnalyzeSources ==
    { [kind |-> "array", img |-> Image(n)] : n \in {"anna", "group", "blank"} }
    \cup { [kind |-> "missing", img |-> NoImage] }

AnalyzeActionArgs ==
    { [kind |-> "str", value |-> "emotion"],
      [kind |-> "str", value |-> "smile"],
      [kind |-> "tuple", value |-> << >>],
      [kind |-> "list", value |-> << >>],
      [kind |-> "tuple", value |-> <<"emotion", "age", "gender", "race">>],
      [kind |-> "list", value |-> <<"age", "gender">>],
      [kind |-> "list", value |-> <<"smile">>],
      [kind |-> "tuple", value |-> <<"age", "smile", "age">>] }

\* one call of DeepFace.analyze
AnalyzeCall ==
    /\ az = << >>
    /\ Sequential
    /\ \E src \in AnalyzeSources, actions \in AnalyzeActionArgs,
          backend \in ExBackends, enforce \in BOOLEAN, align \in BOOLEAN :
        \E out \in { analyze(Registry, src, actions, backend, enforce, align) } :
            /\ az' = << [src |-> src, actions |-> actions, backend |-> backend,
                         enforce |-> enforce, align |-> align, out |-> out] >>
            /\ SetRegistry(out.reg)
    /\ UNCHANGED <<bm, rp, exVars, vfVars, fdVars>>

\* the caller is done with the results
AnalyzeDone ==
    /\ az # << >>
    /\ az' = << >>
    /\ UNCHANGED <<bm, rp, exVars, vfVars, fdVars, regVars>>

NextAnalyze == AnalyzeCall \/ AnalyzeDone

SpecAnalyze == Init /\ [][NextAnalyze]_vars

\* a sole caller on the entry points, one call after the other, over a
\* gallery directory of two files
InitEntry ==
    /\ InitEx /\ InitReg /\ InitVf /\ InitAp
    /\ db = Gallery(FileA :> "anna" @@ FileB :> "bob")
    /\ cache = [c \in CacheFiles |-> NoCache]
    /\ fd = << >>
    /\ edits = 0

NextEntry ==
    \/ (BuildModelCall \/ BuildModelDone \/ RepresentCall \/ RepresentDone)
    \/ /\ bm = << >> /\ rp = << >> /\ fd = << >>
       /\ (VerifyEntry \/ VerifyDone)
       /\ UNCHANGED apVars
    \/ /\ bm = << >> /\ rp = << >> /\ vf = << >>
       /\ (FindEntry \/ FindDone)
       /\ UNCHANGED apVars

SpecEntry == InitEntry /\ [][NextEntry]_vars

(***************************************************************************)
(* C1: over any sequence of build_model calls the predictor of a valid     *)
(* name is constructed at most once; the first request constructs and      *)
(* stores it, every later request returns the stored predictor without     *)
(* calling the loader, and no entry is ever removed or replaced.           *)
(***************************************************************************)
C1_BuiltOnce ==
    /\ [](\A n \in RegNames :
            /\ loads[n] <= 1
            /\ returned[n] \subseteq {model_obj[n]} \ {0}
            /\ (\A t \in Threads : pc[t] = "idle") =>
                   (loads[n] = 1 <=> model_obj[n] # 0))
    /\ [][\A n \in RegNames :
            /\ model_obj[n] # 0 => model_obj'[n] = model_obj[n]
            /\ model_obj[n] # 0 => loads'[n] = loads[n]]_vars

\* a second request for a name has returned, with the name built once
C1_Witness ==
    \E t \in Threads, u \in Threads :
        /\ t # u
        /\ req[t] = "VGG-Face" /\ req[u] = "VGG-Face"
        /\ pc[t] = "idle" /\ pc[u] = "idle"
        /\ raised[t] = "ok" /\ raised[u] = "ok"
        /\ loads["VGG-Face"] = 1
        /\ returned["VGG-Face"] = {model_obj["VGG-Face"]}

(***************************************************************************)
(* C2: when several callers concurrently make the first request for the    *)
(* same name, its predictor is constructed exactly once and every caller   *)
(* receives that one predictor.                                            *)
(***************************************************************************)
C2_SingleFlight ==
    \A n \in RegNames :
        /\ loads[n] <= 1
        /\ Cardinality(returned[n]) <= 1

\* the calls of verify held in the state
VfCalls == { vf[i] : i \in 1..Len(vf) }

\* the faces verify extracts from an image of call c, lines 113-127
VfFaces(c, src) ==
    LET t == find_target_size(c.model_name)
    IN  ExtractFaces(src, [dims |-> <<t[2], t[1]>>, kind |-> "tuple"],
                     c.backend, c.enforce, c.align).faces

\* the distance of two extracted faces under the model and metric of call c
VfPairDistance(c, f1, f2) ==
    Distance(c.metric,
             RepresentSkip(c.out.reg, f1.tensor, c.model_name,
                           c.normalization).embedding,
             RepresentSkip(c.out.reg, f2.tensor, c.model_name,
                           c.normalization).embedding)

(***************************************************************************)
(* C5: verify evaluates the distance of every pair (face of image 1, face  *)
(* of image 2), reports the minimum of these distances, reports as         *)
(* facial_areas the boxes of the pair that attains it, and sets verified   *)
(* exactly when the minimum is <= threshold(model, metric).                *)
(***************************************************************************)
C5_VerifyBestPair ==
    \A c \in VfCalls :
        c.out.err = "ok" =>
            LET f1 == VfFaces(c, c.img1)
                f2 == VfFaces(c, c.img2)
                n2 == Len(f2)
            IN  /\ Len(c.out.distances) = Len(f1) * n2
                /\ \A i \in 1..Len(f1), j \in 1..n2 :
                     /\ c.out.distances[(i - 1) * n2 + j]
                            = VfPairDistance(c, f1[i], f2[j])
                     /\ c.out.distance <= VfPairDistance(c, f1[i], f2[j])
                /\ \E i \in 1..Len(f1), j \in 1..n2 :
                     /\ c.out.distance = VfPairDistance(c, f1[i], f2[j])
                     /\ c.out.facial_areas = <<f1[i].region, f2[j].region>>
                /\ c.out.verified <=>
                     c.out.distance <= findThreshold(c.model_name, c.metric)

\* verify has returned for a two-face image whose second face is the match
C5_Witness ==
    \E c \in VfCalls :
        /\ c.out.err = "ok"
        /\ Len(c.out.distances) = 2
        /\ c.out.distances[2] < c.out.distances[1]
        /\ c.out.distance = c.out.distances[2]
        /\ c.out.verified
        /\ c.out.distances[1] > c.out.threshold

\* the calls of find held in the state
FdCalls == { fd[i] : i \in 1..Len(fd) }

\* the call got past the checks of lines 354-357
FdEntered(c) ==
    c.args.isdir /\ find_target_size(c.args.model_name) # NoSize

\* the store a build over the directory of call c yields with the settings
\* of the call
FdRebuild(c) ==
    LET employees == Employees(c.dir)
    IN  IF employees = << >>
        THEN [err |-> ErrEmptyGallery, reps |-> << >>, reg |-> c.out.reg]
        ELSE BuildLoop([err |-> "ok", reps |-> << >>, reg |-> c.out.reg],
                       c.dir, employees,
                       [dims |-> find_target_size(c.args.model_name),
                        kind |-> "tuple"],
                       c.args.model_name, c.args)

(***************************************************************************)
(* C3: once the cache file of a model exists, a find on that model loads   *)
(* exactly the persisted records and does not walk the gallery, whatever   *)
(* was added to or removed from the gallery since; the file changes only   *)
(* when the caller deletes it.                                             *)
(***************************************************************************)
C3_CacheLoadedVerbatim ==
    /\ [](\A c \in FdCalls :
            (FdEntered(c) /\ c.before.exists) =>
                /\ ~c.out.walked
                /\ c.out.store = c.before.reps
                /\ c.out.entry = c.before
                /\ c.out.err # ErrEmptyGallery)
    /\ [][\A f \in CacheFiles :
            (cache[f].exists /\ cache'[f] # cache[f]) =>
                (cache'[f] = NoCache /\ fd = << >> /\ fd' = << >>)]_vars

\* a find has answered from a cache file that no longer matches the files of
\* the gallery
C3_Witness ==
    \E c \in FdCalls :
        /\ c.before.exists /\ c.out.err = "ok"
        /\ edits > 0
        /\ c.out.store = c.before.reps
        /\ { c.out.store[i].identity : i \in 1..Len(c.out.store) }
               # { Employees(c.dir)[i] : i \in 1..Len(Employees(c.dir)) }

\* the faces find extracts from the probe of call c, lines 435-441
FdProbeFaces(c) ==
    ExtractFaces(ProbeSource(c.dir, c.args.probe),
                 [dims |-> find_target_size(c.args.model_name), kind |-> "tuple"],
                 c.args.backend, c.args.enforce, c.args.align).faces

\* the distance of record i of the store of call c to probe face f
FdDistance(c, i, f) ==
    Distance(c.args.metric, c.out.store[i].embedding,
             RepresentSkip(c.out.reg, f.tensor, c.args.model_name,
                           c.args.normalization).embedding)

\* the records of the store of call c within the threshold of probe face f
FdWithin(c, f) ==
    { i \in 1..Len(c.out.store) :
        FdDistance(c, i, f) <= findThreshold(c.args.model_name, c.args.metric) }

(***************************************************************************)
(* C4: find returns one result set per face extracted from the probe, in   *)
(* extraction order; each result set holds exactly the records of the      *)
(* store whose distance to that face is <= threshold(model, metric), in    *)
(* ascending order of distance, every row with the box of that face.       *)
(***************************************************************************)
C4_FindResultSets ==
    \A c \in FdCalls :
        c.out.err = "ok" =>
            LET faces == FdProbeFaces(c)
            IN  /\ Len(c.resp) = Len(faces)
                /\ \A k \in 1..Len(faces) :
                     LET frame == c.resp[k]
                         within == FdWithin(c, faces[k])
                     IN  /\ \A j \in 1..Len(frame) :
                               frame[j].source = faces[k].region
                         /\ \A j \in 1..(Len(frame) - 1) :
                               frame[j].distance <= frame[j + 1].distance
                         /\ Len(frame) = Cardinality(within)
                         /\ \E g \in [1..Len(frame) -> within] :
                               /\ \A x, y \in 1..Len(frame) :
                                    g[x] = g[y] => x = y
                               /\ \A j \in 1..Len(frame) :
                                    /\ frame[j].identity
                                         = c.out.store[g[j]].identity
                                    /\ frame[j].distance
                                         = FdDistance(c, g[j], faces[k])

\* find has answered for a probe of two faces; the second result set leaves
\* records out and lists two records in another order than the store
C4_Witness ==
    \E c \in FdCalls :
        /\ c.out.err = "ok"
        /\ Len(c.resp) = 2
        /\ c.resp[1] # c.resp[2]
        /\ Len(c.resp[1]) > 0
        /\ Len(c.resp[2]) = 2
        /\ Len(c.out.store) > 2
        /\ c.resp[2][1].distance < c.resp[2][2].distance
        /\ \E i, j \in 1..Len(c.out.store) :
             /\ i < j
             /\ c.out.store[i].identity = c.resp[2][2].identity
             /\ c.out.store[j].identity = c.resp[2][1].identity

\* call c queries a gallery of single-face images with one of its images,
\* the store being the one a build over the gallery with the settings of
\* the call yields
FdRoundTrip(c) ==
    /\ c.out.err = "ok"
    /\ c.args.probe.kind = "file"
    /\ LET r == FdRebuild(c)
           employees == Employees(c.dir)
       IN  /\ r.err = "ok"
           /\ c.out.store = r.reps
           /\ Len(r.reps) = Len(employees)
           /\ \A i \in 1..Len(employees) : r.reps[i].identity = employees[i]
           /\ \E i \in 1..Len(employees) : employees[i] = c.args.probe.name

(***************************************************************************)
(* C6: gallery round trip: after find has built the store over N           *)
(* single-face images, a query whose probe is one of those images returns  *)
(* the record of that image as the first row, at distance 0 and within the *)
(* threshold.                                                              *)
(***************************************************************************)
C6_OwnRecordFirst ==
    \A c \in FdCalls :
        FdRoundTrip(c) =>
            /\ Len(c.resp) = 1
            /\ Len(c.resp[1]) > 0
            /\ c.resp[1][1].identity = c.args.probe.name
            /\ c.resp[1][1].distance = 0
            /\ 0 <= findThreshold(c.args.model_name, c.args.metric)

(***************************************************************************)
(* C6, as the code has it: the record of the probe image is in the result  *)
(* at distance 0, within the threshold, and the first row is at distance   *)
(* 0; it is the record of the probe image when no other record of the      *)
(* store is at distance 0.                                                 *)
(***************************************************************************)
C6_OwnRecordAtZero ==
    \A c \in FdCalls :
        FdRoundTrip(c) =>
            /\ Len(c.resp) = 1
            /\ Len(c.resp[1]) > 0
            /\ 0 <= findThreshold(c.args.model_name, c.args.metric)
            /\ c.resp[1][1].distance = 0
            /\ \E j \in 1..Len(c.resp[1]) :
                 /\ c.resp[1][j].identity = c.args.probe.name
                 /\ c.resp[1][j].distance = 0
            /\ (\A j \in 1..Len(c.resp[1]) :
                   c.resp[1][j].distance = 0 =>
                       c.resp[1][j].identity = c.args.probe.name)
               => c.resp[1][1].identity = c.args.probe.name

\* a query from the reloaded cache file has returned the record of the
\* probe image first, ahead of another record
C6_Witness ==
    \E c \in FdCalls :
        /\ FdRoundTrip(c)
        /\ c.before.exists
        /\ Len(c.resp[1]) > 1
        /\ c.resp[1][1].identity = c.args.probe.name
        /\ c.resp[1][1].identity # c.out.store[1].identity
        /\ c.resp[1][2].distance > 0

(***************************************************************************)
(* The calls a sole caller holds, and the steps that make them.            *)
(***************************************************************************)
BmCalls == { bm[i] : i \in 1..Len(bm) }
RpCalls == { rp[i] : i \in 1..Len(rp) }

\* the errors that say the model name is not known: line 67 of DeepFace.py
\* and line 251 of functions.py
UnknownModelErrors == {ErrInvalidModel, ErrTargetSize}

\* a name neither build_model nor find_target_size knows
UnknownName(model_name) == model_name \notin LoaderNames

\* the model name of the entry point call this step makes, None when the
\* step makes none
CalledModel ==
    IF bm = << >> /\ bm' # << >> THEN bm'[1].model_name
    ELSE IF rp = << >> /\ rp' # << >> THEN rp'[1].model_name
    ELSE IF vf = << >> /\ vf' # << >> THEN vf'[1].model_name
    ELSE IF fd = << >> /\ fd' # << >> THEN fd'[1].args.model_name
    ELSE None

\* the step leaves the entries of the registry and the cache files alone
StoresUntouched ==
    model_obj' = model_obj /\ loads' = loads /\ cache' = cache

(***************************************************************************)
(* C11: an unrecognized model name passed to build_model, represent,       *)
(* verify or find fails with the unknown-model error and with no other     *)
(* error, and leaves the model registry and the cache files unchanged.     *)
(***************************************************************************)
C11_UnknownModelAlways ==
    /\ \A c \in BmCalls \cup RpCalls \cup VfCalls :
         UnknownName(c.model_name) => c.out.err \in UnknownModelErrors
    /\ \A c \in FdCalls :
         UnknownName(c.args.model_name) => c.out.err \in UnknownModelErrors

(***************************************************************************)
(* C11, as the code has it: the same, for find when db_path is a           *)
(* directory; find tests db_path before the model name.                    *)
(***************************************************************************)
C11_UnknownModel ==
    /\ [](/\ \A c \in BmCalls \cup RpCalls \cup VfCalls :
               UnknownName(c.model_name) => c.out.err \in UnknownModelErrors
          /\ \A c \in FdCalls :
               UnknownName(c.args.model_name) =>
                   c.out.err = IF c.args.isdir THEN ErrTargetSize ELSE ErrNoDb)
    /\ [][(CalledModel # None /\ UnknownName(CalledModel)) => StoresUntouched]_vars

\* represent has failed on an unknown name while the registry holds a
\* predictor and a cache file exists
C11_Witness ==
    /\ \E c \in RpCalls :
         /\ UnknownName(c.model_name)
         /\ c.out.err = ErrInvalidModel
         /\ c.src.kind = "array"
    /\ model_obj["VGG-Face"] # 0
    /\ cache[CacheFile("VGG-Face")].exists

\* the file name ends in .jpg, .jpeg or .png, whatever the case
HasImageExtension(file) ==
    Lower(file[Len(file)]) \in {".jpg", ".jpeg", ".png"}

\* the files of a gallery directory with the extension of an image
ImageFiles(dir) ==
    { f \in FileNames : dir[f] # "absent" /\ HasImageExtension(f) }

(***************************************************************************)
(* C12: find on a gallery directory with no image file (no file with the   *)
(* extension .jpg, .jpeg or .png, in any case) fails with the              *)
(* empty-gallery error: it returns no results and persists no store.       *)
(***************************************************************************)
C12_EmptyGalleryFails ==
    \A c \in FdCalls :
        (FdEntered(c) /\ ~c.before.exists /\ ImageFiles(c.dir) = {}) =>
            /\ c.out.err = ErrEmptyGallery
            /\ ~c.out.entry.exists
            /\ c.resp = << >>

\* the faces find extracts from file f of the gallery of call c, lines 397-403
FdFileFaces(c, f) ==
    ExtractFaces(FileSource(c.dir, f),
                 [dims |-> find_target_size(c.args.model_name), kind |-> "tuple"],
                 c.args.backend, c.args.enforce, c.args.align).faces

\* the records of a store that carry file f as identity, in their order
FdRecordsOf(store, f) == SelectSeq(store, LAMBDA r : r.identity = f)

AzCalls == { az[i] : i \in 1..Len(az) }

\* the names an actions argument requests
RequestedNames(actions) ==
    IF actions.kind = "str" THEN {actions.value}
    ELSE { actions.value[i] : i \in 1..Len(actions.value) }

\* the result keys of the recognized names among the requested ones
RequestedKeys(actions) ==
    UNION { ActionKeys(a) :
              a \in RequestedNames(actions)
                      \cap {"emotion", "age", "gender", "race"} }

\* the faces analyze extracts for call c, line 261
AzFaces(c) ==
    ExtractFaces(c.src, [dims |-> <<224, 224>>, kind |-> "tuple"], c.backend,
                 c.enforce, c.align)

(***************************************************************************)
(* C14: analyze takes any actions argument (a bare string, any collection, *)
(* empty or with unrecognized names): it raises no error for unrecognized  *)
(* names and returns one result per face with a non-degenerate crop, each  *)
(* with the region of the face and the keys of exactly the requested       *)
(* recognized actions.                                                     *)
(***************************************************************************)
C14_AnalyzeResults ==
    \A c \in AzCalls :
        /\ c.out.err = AzFaces(c).err
        /\ c.out.err = "ok" =>
             /\ Len(c.out.resp) = Len(AzFaces(c).faces)
             /\ \A i \in 1..Len(c.out.resp) :
                  /\ "region" \in c.out.resp[i].keys
                  /\ c.out.resp[i].region = AzFaces(c).faces[i].region
                  /\ c.out.resp[i].keys \ {"region"} = RequestedKeys(c.actions)

(***************************************************************************)
(* C15: normalization never changes the pixel buffer of the caller nor the *)
(* face tensors a calling stage holds: after represent the array the       *)
(* caller passed is as it was, and every tensor verify and find hand to    *)
(* represent is in the [0, 1] scale of extract_faces, on every pairing of  *)
(* verify and after the call.                                              *)
(***************************************************************************)
C15_BuffersUnchanged ==
    /\ \A c \in RpCalls :
         c.src.kind = "array" => c.out.buf = Pixels(c.src.img)
    /\ \A c \in VfCalls :
         \A p \in 1..Len(c.out.fed) :
            c.out.fed[p][1].scale = "unit" /\ c.out.fed[p][2].scale = "unit"
    /\ \A c \in FdCalls :
         \A k \in 1..Len(c.out.held) : c.out.held[k].scale = "unit"

\* verify has compared two faces of one image with the face of another
\* under a normalization that works in place: the tensor of that face went
\* to represent twice
C15_Witness ==
    \E c \in VfCalls :
        /\ c.out.err = "ok"
        /\ c.normalization = "Facenet"
        /\ Len(c.out.fed) = 2
        /\ c.out.fed[1][2] = c.out.fed[2][2]
        /\ c.out.fed[1][1] # c.out.fed[2][1]

\* what a call of verify that returns hands back: the one dict resp_obj of
\* lines 175-186
VfReturned(c) == IF c.out.err = "ok" THEN << c.out >> ELSE << >>

(***************************************************************************)
(* C16: verify called with a list of image pairs returns a list of result  *)
(* dicts, one per pair, in the order of the pairs.                         *)
(***************************************************************************)
C16_BulkVerify ==
    \A c \in VfCalls :
        c.img1.kind = "list" =>
            /\ c.out.err = "ok"
            /\ Len(VfReturned(c)) = Len(c.img1.pairs)

\* the call of find of c with the settings cfg in place of its own
FdWithSettings(c, cfg) ==
    find(c.out.reg, c.dir, c.before,
         [c.args EXCEPT !.probe = ProbeSource(c.dir, c.args.probe),
                        !.backend = cfg.backend, !.enforce = cfg.enforce,
                        !.align = cfg.align,
                        !.normalization = cfg.normalization])

\* the call o used the records of the cache file entry and left the file
FdUsedCache(o, entry) ==
    /\ ~o.walked
    /\ o.store = entry.reps
    /\ o.entry = entry

(***************************************************************************)
(* C17: the cache file is keyed by the model name alone: when it exists,   *)
(* find compares the probe with the stored embeddings whatever the         *)
(* detector backend, alignment, enforcement and normalization of the call, *)
(* so two calls that differ only in these use the identical store.         *)
(***************************************************************************)
C17_CacheKeyedByModel ==
    \A c \in FdCalls :
        (FdEntered(c) /\ c.before.exists) =>
            /\ FdUsedCache(c.out, c.before)
            /\ \A cfg \in FindConfigs :
                 FdUsedCache(FdWithSettings(c, cfg), c.before)
            /\ c.out.err = "ok" =>
                 \A k \in 1..Len(FdProbeFaces(c)) :
                    { c.out.rows[k][r].identity : r \in 1..Len(c.out.rows[k]) }
                       = { c.before.reps[i].identity : i \in FdWithin(c, FdProbeFaces(c)[k]) }

\* find has answered from a cache file with settings under which a build
\* over the unchanged gallery gives other embeddings
C17_Witness ==
    \E c \in FdCalls :
        /\ c.before.exists /\ c.out.err = "ok"
        /\ edits = 0
        /\ c.args.normalization = "Facenet" /\ c.args.backend = "skip"
        /\ FdRebuild(c).err = "ok"
        /\ FdRebuild(c).reps # c.out.store
        /\ c.out.rows # << >>

\* the (height, width) of a face tensor
TensorShape(tensor) == <<tensor.h, tensor.w>>

(***************************************************************************)
(* C18: verify, find and represent extract the faces at the same (height,  *)
(* width) target size, the one find_target_size gives for the model.       *)
(***************************************************************************)
C18_SameTargetSize ==
    /\ \A c \in VfCalls :
         find_target_size(c.model_name) # NoSize =>
            \A src \in {c.img1, c.img2} :
               \A i \in 1..Len(VfFaces(c, src)) :
                  TensorShape(VfFaces(c, src)[i].tensor)
                     = find_target_size(c.model_name)
    /\ \A c \in FdCalls :
         \A k \in 1..Len(c.out.held) :
            TensorShape(c.out.held[k]) = find_target_size(c.args.model_name)
    /\ \A c \in RpCalls :
         c.backend # "skip" =>
            \A k \in 1..Len(c.out.fed) :
               TensorShape(c.out.fed[k]) = find_target_size(c.model_name)

(***************************************************************************)
(* C19: a find whose build of the store fails part-way (no image in the    *)
(* gallery, or a file without a face while enforce_detection is set)       *)
(* persists nothing, so that the next find on the model builds again.      *)
(***************************************************************************)
C19_FailedBuildPersistsNothing ==
    \A c \in FdCalls :
        (FdEntered(c) /\ ~c.before.exists) =>
            \* the call walks the gallery: it builds
            /\ c.out.walked
            /\ FdRebuild(c).err # "ok" =>
                 /\ c.out.err = FdRebuild(c).err
                 /\ c.out.entry = c.before
                 /\ ~cache[CacheFile(c.args.model_name)].exists
                 /\ c.resp = << >>

\* the build of find has failed at the second file of the gallery, a picture
\* without a face, after the first file gave a record
C19_Witness ==
    \E c \in FdCalls :
        /\ FdEntered(c) /\ ~c.before.exists
        /\ Len(Employees(c.dir)) = 2
        /\ Len(FdFileFaces(c, Employees(c.dir)[1])) = 1
        /\ c.args.enforce
        /\ c.out.err = ErrNoFace
        /\ FdRebuild(c).err = ErrNoFace
        /\ ~cache[CacheFile(c.args.model_name)].exists

\* the calls held in the state
ExCalls == { ex[i] : i \in 1..Len(ex) }

\* the crops the loop of extract_faces visits in a call whose image loaded
ExFaceObjs(c) ==
    LET objs == IF c.backend = "skip" THEN <<WholeFace(c.src.img)>>
                ELSE DetectFaces(c.backend, c.src.img, c.align)
    IN  IF Len(objs) = 0 THEN <<WholeFace(c.src.img)>> ELSE objs

ExLoaded(c) == c.src.kind \in {"array", "path"}

ExDegenerate(f) == f.h <= 0 \/ f.w <= 0

(***************************************************************************)
(* C7: with enforce_detection = True, extract_faces never returns an       *)
(* empty list: when the detector returns no face, or every detected crop   *)
(* has a zero dimension, the call ends with the no-face ValueError.        *)
(***************************************************************************)
C7_EnforceNeverEmpty ==
    \A c \in ExCalls :
        c.enforce =>
            /\ c.out.err = "ok" => Len(c.out.faces) > 0
            /\ ( /\ ExLoaded(c)
                 /\ \/ (c.backend # "skip" /\ c.src.img.dets = << >>)
                    \/ \A i \in 1..Len(ExFaceObjs(c)) :
                           ExDegenerate(ExFaceObjs(c)[i]) )
               => c.out.err \in NoFaceErrors

\* an enforcing call on an image whose every detection is degenerate has
\* ended with the error
C7_Witness ==
    \E c \in ExCalls :
        /\ c.enforce /\ ExLoaded(c) /\ c.backend # "skip"
        /\ Len(c.src.img.dets) = 2
        /\ \A i \in 1..2 : ExDegenerate(c.src.img.dets[i])
        /\ c.out.err = ErrFaceShape

(***************************************************************************)
(* C8: with enforce_detection = False, an image in which the detector      *)
(* finds no face never raises: extraction returns one pseudo-face whose    *)
(* box is the whole image, with confidence 0.                              *)
(***************************************************************************)
C8_NoFaceNeverRaises ==
    \A c \in ExCalls :
        ( /\ ~c.enforce /\ ExLoaded(c) /\ c.backend # "skip"
          /\ c.src.img.dets = << >> )
        => /\ c.out.err = "ok"
           /\ Len(c.out.faces) = 1
           /\ c.out.faces[1].region = <<0, 0, c.src.img.w, c.src.img.h>>
           /\ c.out.faces[1].conf = 0

(***************************************************************************)
(* C9: every tensor extract_faces returns has height target_size[0] and    *)
(* width target_size[1], for every target size, whether or not the         *)
(* re-resize of line 160 fires.                                            *)
(***************************************************************************)
C9_TensorShapeIsTarget ==
    \A c \in ExCalls :
        c.out.err = "ok" =>
            \A i \in 1..Len(c.out.faces) :
                /\ c.out.faces[i].tensor.h = c.target.dims[1]
                /\ c.out.faces[i].tensor.w = c.target.dims[2]

(***************************************************************************)
(* C10: padding invariant: for every crop with both dimensions > 0 and     *)
(* every target size the scaled crop has positive dimensions not exceeding *)
(* the target, the leading pad is floor(diff / 2) and the trailing pad the *)
(* rest, so the pads are never negative and add up to the difference.      *)
(***************************************************************************)
C10_PaddingInvariant ==
    \A c \in ExCalls :
        ExLoaded(c) =>
            /\ c.out.err \notin {ErrCv2, ErrPad}
            /\ \A i \in 1..Len(c.out.faces) :
                 LET x == c.out.faces[i].tensor
                     t == c.target.dims
                 IN  /\ x.sh \in 1..t[1] /\ x.sw \in 1..t[2]
                     /\ x.top = (t[1] - x.sh) \div 2
                     /\ x.left = (t[2] - x.sw) \div 2
                     /\ x.top >= 0 /\ x.bottom >= 0
                     /\ x.left >= 0 /\ x.right >= 0
                     /\ x.top + x.bottom = t[1] - x.sh
                     /\ x.left + x.right = t[2] - x.sw

====
